---- MODULE Spec2Model ----
(***************************************************************************)
(* Clarity Todo: the task API of server/src/index.js over the tasks table  *)
(* of supabase-schema.sql.  The store is the set of rows of public.tasks;  *)
(* one action per route handler, each handler taken as one atomic step.    *)
(* The browser client of client/app.js is the task list it holds, its      *)
(* filter and sort settings, and the list it last rendered.                *)
(***************************************************************************)
EXTENDS Integers, Sequences, FiniteSets, TLC

VARIABLES tasks,    \* rows of public.tasks
          nextId,   \* next value of uuid_generate_v4(), as a counter
          prev,     \* the rows as they were before the last request
          last,     \* the last request and the answer it got
          nreq,     \* number of requests handled (bounded in Spec only)
          repeated, \* the last request is the one before it, sent again
          todos,          \* TodoApp.todos
          currentFilter,  \* TodoApp.currentFilter
          currentSort,    \* TodoApp.currentSort
          rendered, \* the list the last render() showed
          calc,     \* the last call of a function checked on its own: arguments, result
          handlers, \* PUT handlers of the server taken step by step
          isLoading,      \* TodoApp.isLoading
          inflight, \* requests of the client sent and not yet handled by it
          timers,   \* setTimeout callbacks of the client not yet run
          modal,    \* the confirm dialog: the pending deleteTask, or closed
          toast,    \* the last toast shown, and whether any error toast was shown
          session,  \* ClarityApp.session
          todoApp,  \* ClarityApp.todoApp
          bound,    \* the TodoApp instances whose listeners are on the page
          issued    \* the requests the last click on Add sent

server == <<tasks, nextId, prev, last, nreq, repeated>>
client == <<todos, currentFilter, currentSort, rendered>>
ui == <<isLoading, inflight, timers, modal, toast>>
auth == <<session, todoApp, bound, issued>>
others == <<handlers, ui, auth>>
vars == <<tasks, nextId, prev, last, nreq, repeated,
          todos, currentFilter, currentSort, rendered, calc,
          handlers, isLoading, inflight, timers, modal, toast,
          session, todoApp, bound, issued>>

-----------------------------------------------------------------------------
(* Bounds *)

MaxTasks == 3
MaxRequests == 2
MaxTodos == 3
MaxApps == 3

(* Program constants *)

MaxTextLength == 200

-----------------------------------------------------------------------------
(* Values *)

\* SQL NULL in the id and date columns (ids are 1.., dates are yyyymmdd)
NULL == 0
\* SQL NULL / JS null in the recurrence_pattern column
NoPattern == "null"
\* an :id path segment that is not a UUID
BadId == -1

\* a JSON body field: absent (undefined) or present with a value
Absent == <<>>
Some(v) == <<v>>
Has(o) == o # <<>>
Val(o) == o[1]

\* a string, as far as trim() and length see it: leading whitespace, the
\* trimmed core, trailing whitespace (core = 0: all whitespace, held in lead)
Str(l, c, t) == [lead |-> l, core |-> c, trail |-> t]
Length(s) == s.lead + s.core + s.trail
Trim(s) == Str(0, s.core, 0)

validPatterns == {"daily", "weekly", "monthly", "yearly"}

\* JS truthiness of a recurrence_pattern value (null and "" are falsy)
Truthy(p) == p \notin {NoPattern, ""}

Users == {"u1", "u2"}

-----------------------------------------------------------------------------
(* Calendar: dates are integers yyyymmdd *)

MkDate(y, m, d) == y * 10000 + m * 100 + d
YearOf(dt) == dt \div 10000
MonthOf(dt) == (dt \div 100) % 100
DayOf(dt) == dt % 100

IsLeap(y) == (y % 4 = 0 /\ y % 100 # 0) \/ y % 400 = 0

DaysInMonth(y, m) ==
    IF m = 2 THEN (IF IsLeap(y) THEN 29 ELSE 28)
    ELSE IF m \in {4, 6, 9, 11} THEN 30 ELSE 31

\* Date.setDate / setMonth / setFullYear normalisation of an overflowing day
RECURSIVE Normalise(_, _, _)
Normalise(y, m, d) ==
    IF m > 12 THEN Normalise(y + 1, m - 12, d)
    ELSE IF d > DaysInMonth(y, m) THEN Normalise(y, m + 1, d - DaysInMonth(y, m))
    ELSE MkDate(y, m, d)

calculateNextDueDate(currentDueDate, pattern, now) ==
    LET date == IF currentDueDate # NULL THEN currentDueDate ELSE now
        y == YearOf(date)
        m == MonthOf(date)
        d == DayOf(date)
    IN  CASE pattern = "daily"   -> Normalise(y, m, d + 1)
          [] pattern = "weekly"  -> Normalise(y, m, d + 7)
          [] pattern = "monthly" -> Normalise(y, m + 1, d)
          [] pattern = "yearly"  -> Normalise(y + 1, m, d)
          [] OTHER               -> date

-----------------------------------------------------------------------------
(* The store *)

Ids(S) == {r.id : r \in S}

\* faulty variant: the ownership filter .eq('user_id', ...) left out
SelectAnyOwner(T, id, user) == {r \in T : r.id = id}

\* .eq('id', id).eq('user_id', user)
SelectOwn(T, id, user) == {r \in T : r.id = id /\ r.user_id = user}

\* faulty variant: parent_task_id ... ON DELETE CASCADE
DeleteRowsCascade(T, S) == {r \in T \ S : r.parent_task_id \notin Ids(S)}

\* DELETE of the rows S; parent_task_id ... ON DELETE SET NULL
DeleteRows(T, S) ==
    {IF r.parent_task_id \in Ids(S) THEN [r EXCEPT !.parent_task_id = NULL] ELSE r
        : r \in T \ S}

\* .order('created_at', { ascending: false }): ids are handed out in creation order
RECURSIVE NewestFirst(_)
NewestFirst(S) ==
    IF S = {} THEN <<>>
    ELSE LET r == CHOOSE x \in S : \A z \in S : z.id <= x.id
         IN  <<r>> \o NewestFirst(S \ {r})

NoBody == [text |-> Absent, completed |-> Absent, due_date |-> Absent,
           is_recurring |-> Absent, recurrence_pattern |-> Absent]

Request(op, user, id, series, body) ==
    [op |-> op, user |-> user, id |-> id, deleteSeries |-> series, body |-> body]

Answer(req, status, error, data) ==
    [op |-> req.op, user |-> req.user, id |-> req.id, deleteSeries |-> req.deleteSeries,
     body |-> req.body, status |-> status, error |-> error, data |-> data]

\* the table empty, no request handled yet
InitServer ==
    /\ tasks = {}
    /\ nextId = 1
    /\ prev = {}
    /\ last = Answer(Request("none", "u1", NULL, FALSE, NoBody), 0, "", <<>>)
    /\ nreq = 0
    /\ repeated = FALSE

\* the fields the TodoApp constructor sets, nothing rendered yet
InitClient ==
    /\ todos = <<>>
    /\ currentFilter = "all"
    /\ currentSort = "created"
    /\ rendered = <<>>

NoCall == [fn |-> "none"]

\* two requests at a time
Handlers == {1, 2}
Idle == [pc |-> "idle"]
Closed == [open |-> FALSE]
NoToast == [type |-> "none", text |-> "", failed |-> FALSE]

\* no request being handled
InitHandlers == handlers = [h \in Handlers |-> Idle]

\* isLoading false, the dialog hidden, nothing sent
InitUi ==
    /\ isLoading = FALSE
    /\ inflight = {}
    /\ timers = {}
    /\ modal = Closed
    /\ toast = NoToast

NoSession == "null"

\* the fields the ClarityApp constructor sets, no TodoApp made yet
InitAuth ==
    /\ session = NoSession
    /\ todoApp = NULL
    /\ bound = {}
    /\ issued = {}

InitOthers == InitHandlers /\ InitUi /\ InitAuth

Init == InitServer /\ InitClient /\ calc = NoCall /\ InitOthers

-----------------------------------------------------------------------------
(* GET /api/tasks *)

GetTasks(u) ==
    /\ last' = Answer(Request("GET", u, NULL, FALSE, NoBody), 200, "",
                      NewestFirst({r \in tasks : r.user_id = u}))
    /\ prev' = tasks
    /\ UNCHANGED <<tasks, nextId>>

-----------------------------------------------------------------------------
(* POST /api/tasks *)

\* !text || typeof text !== 'string' || text.trim().length === 0
TextMissing(text) == ~Has(text) \/ Length(Val(text)) = 0 \/ Length(Trim(Val(text))) = 0

\* text.length > 200
TextTooLong(text) == Length(Val(text)) > MaxTextLength

\* is_recurring && recurrence_pattern && !validPatterns.includes(recurrence_pattern)
PostPatternInvalid(b) ==
    /\ Has(b.is_recurring) /\ Val(b.is_recurring)
    /\ Has(b.recurrence_pattern) /\ Truthy(Val(b.recurrence_pattern))
    /\ Val(b.recurrence_pattern) \notin validPatterns

taskData(nid, u, b) ==
    LET rec == Has(b.is_recurring) /\ Val(b.is_recurring)
    IN  [id |-> nid,
         user_id |-> u,
         text |-> Trim(Val(b.text)),
         completed |-> FALSE,
         due_date |-> IF Has(b.due_date) THEN Val(b.due_date) ELSE NULL,
         is_recurring |-> rec,
         recurrence_pattern |-> IF rec /\ Has(b.recurrence_pattern)
                                THEN Val(b.recurrence_pattern) ELSE NoPattern,
         parent_task_id |-> NULL]

PostTask(u, b) ==
    LET req == Request("POST", u, NULL, FALSE, b)
    IN  /\ prev' = tasks
        /\ IF TextMissing(b.text)
           THEN /\ last' = Answer(req, 400, "Task text is required", <<>>)
                /\ UNCHANGED <<tasks, nextId>>
           ELSE IF TextTooLong(b.text)
           THEN /\ last' = Answer(req, 400, "Task text must be 200 characters or less", <<>>)
                /\ UNCHANGED <<tasks, nextId>>
           ELSE IF PostPatternInvalid(b)
           THEN /\ last' = Answer(req, 400, "Invalid recurrence pattern", <<>>)
                /\ UNCHANGED <<tasks, nextId>>
           ELSE /\ nextId <= MaxTasks
                /\ tasks' = tasks \cup {taskData(nextId, u, b)}
                /\ nextId' = nextId + 1
                /\ last' = Answer(req, 201, "", <<taskData(nextId, u, b)>>)

-----------------------------------------------------------------------------
(* PUT /api/tasks/:id *)

\* typeof text !== 'string' || text.trim().length === 0
PutTextEmpty(text) == Length(Trim(Val(text))) = 0

\* recurrence_pattern && !validPatterns.includes(recurrence_pattern)
PutPatternInvalid(b) ==
    /\ Has(b.recurrence_pattern) /\ Truthy(Val(b.recurrence_pattern))
    /\ Val(b.recurrence_pattern) \notin validPatterns

\* faulty variant: completed taken as true whenever the field is sent
BuildUpdatesCompletedSent(b) ==
    [text |-> IF Has(b.text) THEN Some(Trim(Val(b.text))) ELSE Absent,
     completed |-> IF Has(b.completed) THEN Some(TRUE) ELSE Absent,
     due_date |-> b.due_date,
     is_recurring |-> b.is_recurring,
     recurrence_pattern |->
        IF Has(b.recurrence_pattern) THEN b.recurrence_pattern
        ELSE IF Has(b.is_recurring) /\ ~Val(b.is_recurring) THEN Some(NoPattern)
        ELSE Absent]

\* the updates object, field by field in the order the handler fills it
BuildUpdates(b) ==
    [text |-> IF Has(b.text) THEN Some(Trim(Val(b.text))) ELSE Absent,
     completed |-> b.completed,
     due_date |-> b.due_date,
     is_recurring |-> b.is_recurring,
     recurrence_pattern |->
        IF Has(b.recurrence_pattern) THEN b.recurrence_pattern
        ELSE IF Has(b.is_recurring) /\ ~Val(b.is_recurring) THEN Some(NoPattern)
        ELSE Absent]

\* Object.keys(updates).length === 0
NoUpdates(updates) ==
    \A f \in {"text", "completed", "due_date", "is_recurring", "recurrence_pattern"} :
        ~Has(updates[f])

\* .update(updates) on one row
ApplyUpdates(r, updates) ==
    [id |-> r.id,
     user_id |-> r.user_id,
     text |-> IF Has(updates.text) THEN Val(updates.text) ELSE r.text,
     completed |-> IF Has(updates.completed) THEN Val(updates.completed) ELSE r.completed,
     due_date |-> IF Has(updates.due_date) THEN Val(updates.due_date) ELSE r.due_date,
     is_recurring |-> IF Has(updates.is_recurring) THEN Val(updates.is_recurring)
                      ELSE r.is_recurring,
     recurrence_pattern |-> IF Has(updates.recurrence_pattern)
                            THEN Val(updates.recurrence_pattern) ELSE r.recurrence_pattern,
     parent_task_id |-> r.parent_task_id]

\* the read of the current task: only when updates.completed === true;
\* .single() gives null unless exactly one row matches
CurrentTask(T, u, id, updates) ==
    IF updates.completed = Some(TRUE) THEN SelectOwn(T, id, u) ELSE {}

\* faulty variant: the recurrence fields of the current task not looked at
SpawnsNextForAnyTask(updates, currentTask) ==
    updates.completed = Some(TRUE) /\ currentTask # {}

\* faulty variant: the recurrence fields taken from the row as updated
SpawnsNextAfterUpdate(updates, currentTask) ==
    /\ updates.completed = Some(TRUE)
    /\ \E c \in currentTask :
          LET n == ApplyUpdates(c, updates)
          IN  n.is_recurring /\ Truthy(n.recurrence_pattern)

\* updates.completed === true && currentTask?.is_recurring && currentTask?.recurrence_pattern
SpawnsNext(updates, currentTask) ==
    /\ updates.completed = Some(TRUE)
    /\ \E c \in currentTask : c.is_recurring /\ Truthy(c.recurrence_pattern)

\* the row inserted for the next occurrence
NextInstance(nid, u, id, c, now) ==
    [id |-> nid,
     user_id |-> u,
     text |-> c.text,
     completed |-> FALSE,
     due_date |-> calculateNextDueDate(c.due_date, c.recurrence_pattern, now),
     is_recurring |-> TRUE,
     recurrence_pattern |-> c.recurrence_pattern,
     parent_task_id |-> id]

PutTask(u, id, b, now) ==
    LET req == Request("PUT", u, id, FALSE, b)
        updates == BuildUpdates(b)
        currentTask == CurrentTask(tasks, u, id, updates)
        matched == SelectOwn(tasks, id, u)
        updated == {ApplyUpdates(r, updates) : r \in matched}
    IN  /\ prev' = tasks
        /\ IF Has(b.text) /\ PutTextEmpty(b.text)
           THEN /\ last' = Answer(req, 400, "Task text cannot be empty", <<>>)
                /\ UNCHANGED <<tasks, nextId>>
           ELSE IF Has(b.text) /\ TextTooLong(b.text)
           THEN /\ last' = Answer(req, 400, "Task text must be 200 characters or less", <<>>)
                /\ UNCHANGED <<tasks, nextId>>
           ELSE IF PutPatternInvalid(b)
           THEN /\ last' = Answer(req, 400, "Invalid recurrence pattern", <<>>)
                /\ UNCHANGED <<tasks, nextId>>
           ELSE IF NoUpdates(updates)
           THEN /\ last' = Answer(req, 400, "No valid fields to update", <<>>)
                /\ UNCHANGED <<tasks, nextId>>
           ELSE IF matched = {}
           \* .single() on no row (or an id that is no uuid) is an error: thrown, 500
           THEN /\ last' = Answer(req, 500, "Failed to update task", <<>>)
                /\ UNCHANGED <<tasks, nextId>>
           ELSE IF SpawnsNext(updates, currentTask)
           THEN /\ nextId <= MaxTasks
                /\ tasks' = ((tasks \ matched) \cup updated)
                               \cup {NextInstance(nextId, u, id, c, now) : c \in currentTask}
                /\ nextId' = nextId + 1
                /\ last' = Answer(req, 200, "", NewestFirst(updated))
           ELSE /\ tasks' = (tasks \ matched) \cup updated
                /\ UNCHANGED nextId
                /\ last' = Answer(req, 200, "", NewestFirst(updated))

-----------------------------------------------------------------------------
(* DELETE /api/tasks/:id *)

\* faulty variant: the series taken to start at the addressed task
SeriesRootSelf(task, id) == id

\* task.parent_task_id || id
SeriesRoot(task, id) == IF task.parent_task_id # NULL THEN task.parent_task_id ELSE id

\* faulty variant: the delete of the parent left out
DeleteSeriesChildrenOnly(T, u, parentId) ==
    DeleteRows(T, {r \in T : r.parent_task_id = parentId /\ r.user_id = u})

\* faulty variant: the delete of the children left out
DeleteSeriesParentOnly(T, u, parentId) == DeleteRows(T, SelectOwn(T, parentId, u))

\* the two deletes of the series branch: children first, then the parent
DeleteSeries(T, u, parentId) ==
    LET children == {r \in T : r.parent_task_id = parentId /\ r.user_id = u}
        T1 == DeleteRows(T, children)
    IN  DeleteRows(T1, SelectOwn(T1, parentId, u))

\* faulty variant: the error of the single delete dropped, as in the series branch
DeleteTaskIgnoringError(u, id, series) ==
    LET req == Request("DELETE", u, id, series, NoBody)
        task == SelectOwn(tasks, id, u)
    IN  /\ prev' = tasks
        /\ UNCHANGED nextId
        /\ tasks' = IF task = {} THEN tasks
                    ELSE IF series
                    THEN LET t == CHOOSE r \in task : TRUE
                         IN  DeleteSeries(tasks, u, SeriesRoot(t, id))
                    ELSE DeleteRows(tasks, task)
        /\ last' = Answer(req, 204, "", <<>>)

DeleteTask(u, id, series) ==
    LET req == Request("DELETE", u, id, series, NoBody)
        task == SelectOwn(tasks, id, u)
    IN  /\ prev' = tasks
        /\ UNCHANGED nextId
        /\ IF series
           THEN /\ tasks' = IF task = {} THEN tasks
                            ELSE LET t == CHOOSE r \in task : TRUE
                                 IN  DeleteSeries(tasks, u, SeriesRoot(t, id))
                /\ last' = Answer(req, 204, "", <<>>)
           ELSE IF id = BadId
           \* invalid input syntax for type uuid: the store returns an error, thrown
           THEN /\ last' = Answer(req, 500, "Failed to delete task", <<>>)
                /\ UNCHANGED tasks
           ELSE /\ tasks' = DeleteRows(tasks, task)
                /\ last' = Answer(req, 204, "", <<>>)

(* DELETE /api/tasks/completed/all *)

ClearCompleted(u) ==
    /\ prev' = tasks
    /\ UNCHANGED nextId
    /\ tasks' = DeleteRows(tasks, {r \in tasks : r.user_id = u /\ r.completed})
    /\ last' = Answer(Request("DELETE_COMPLETED", u, NULL, FALSE, NoBody), 204, "", <<>>)

-----------------------------------------------------------------------------
(* Requests the clients send.  Each specification draws its requests from  *)
(* its own sets, so that the fields its claims are about vary fully.       *)

Opt(S) == {Absent} \cup {Some(v) : v \in S}

Body(t, c, d, r, p) ==
    [text |-> t, completed |-> c, due_date |-> d, is_recurring |-> r,
     recurrence_pattern |-> p]

Clock == {20241231}
DueDates == {20240131}
PatternInputs == {NoPattern, "", "daily", "monthly", "hourly"}
TaskIds == 1..MaxTasks

\* Spec: the recurrence fields and the completed flag vary
RecurrencePosts ==
    {Body(Some(Str(1, 1, 1)), Absent, d, r, p) :
        d \in Opt(DueDates), r \in Opt(BOOLEAN), p \in Opt(PatternInputs)}
RecurrencePuts ==
    {Body(Absent, c, Absent, r, p) :
        c \in Opt(BOOLEAN), r \in Opt(BOOLEAN), p \in Opt(PatternInputs)}

Next ==
    /\ nreq < MaxRequests
    /\ nreq' = nreq + 1
    /\ UNCHANGED <<repeated, client, calc, others>>
    /\ \E u \in Users :
        \/ \E b \in RecurrencePosts : PostTask(u, b)
        \/ \E id \in TaskIds, b \in RecurrencePuts, now \in Clock : PutTask(u, id, b, now)

Spec == Init /\ [][Next]_vars

\* SpecSeries: tasks of two users are created, completed, un-completed, listed
\* and deleted, singly, by series and in bulk
SeriesPosts ==
    {Body(Some(Str(0, 1, 0)), Absent, Absent, Some(TRUE), Some("daily")),
     Body(Some(Str(0, 1, 0)), Absent, Absent, Absent, Absent)}
SeriesPuts == {Body(Absent, Some(c), Absent, Absent, Absent) : c \in BOOLEAN}
PathIds == TaskIds \cup {BadId}

NextSeries ==
    /\ UNCHANGED <<nreq, repeated, client, calc, others>>
    /\ \E u \in Users :
        \/ GetTasks(u)
        \/ \E b \in SeriesPosts : PostTask(u, b)
        \/ \E id \in TaskIds, b \in SeriesPuts, now \in Clock : PutTask(u, id, b, now)
        \/ \E id \in PathIds, series \in BOOLEAN : DeleteTask(u, id, series)
        \/ ClearCompleted(u)

SpecSeries == Init /\ [][NextSeries]_vars

\* SpecText: the text of created and edited tasks varies around the limits
TextInputs ==
    {Str(0, 0, 0), Str(1, 0, 0), Str(1, 1, 1), Str(0, MaxTextLength, 0),
     Str(1, MaxTextLength - 1, 1), Str(0, MaxTextLength + 1, 0)}
TextBodies == {Body(t, Absent, Absent, Absent, Absent) : t \in Opt(TextInputs)}

NextText ==
    /\ UNCHANGED <<nreq, repeated, client, calc, others>>
    /\ \E u \in Users, b \in TextBodies :
        \/ PostTask(u, b)
        \/ \E id \in TaskIds, now \in Clock : PutTask(u, id, b, now)

SpecText == Init /\ [][NextText]_vars

\* SpecRepeat: series of both users are built by completing recurring tasks,
\* then deleted by series and cleared; repeated tells a request sent twice
RequestOf(a) == Request(a.op, a.user, a.id, a.deleteSeries, a.body)
RepeatPuts == {Body(Absent, Some(TRUE), Absent, Absent, Absent)}

NextRepeat ==
    /\ UNCHANGED <<nreq, client, calc, others>>
    /\ \E u \in Users :
        \/ \E b \in SeriesPosts : PostTask(u, b)
        \/ \E id \in TaskIds, b \in RepeatPuts, now \in Clock : PutTask(u, id, b, now)
        \/ \E id \in PathIds : DeleteTask(u, id, TRUE)
        \/ ClearCompleted(u)
    /\ repeated' = (RequestOf(last') = RequestOf(last))

SpecRepeat == Init /\ [][NextRepeat]_vars

-----------------------------------------------------------------------------
(* The date functions, called on their own: calculateNextDueDate of the    *)
(* server and getDueStatus of the client.  calc holds the arguments of the *)
(* call and, once it has returned, its result.                             *)

Years == {2023, 2024}
Dates ==
    {dt \in {MkDate(y, m, d) : y \in Years, m \in 1..12, d \in 1..31} :
        DayOf(dt) <= DaysInMonth(YearOf(dt), MonthOf(dt))}
Todays == {20231230, 20240227, 20240229, 20240615}

NextDueDateCalls ==
    {[fn |-> "calculateNextDueDate", currentDueDate |-> d, pattern |-> p,
      now |-> n, done |-> FALSE, result |-> NULL] :
        d \in Dates \cup {NULL}, p \in validPatterns, n \in Clock}

DueStatusCalls ==
    {[fn |-> "getDueStatus", dateString |-> d, completed |-> c,
      today |-> t, done |-> FALSE, result |-> ""] :
        d \in Dates \cup {NULL}, c \in BOOLEAN, t \in Todays}

\* faulty variant: the third day after today left out of the window
getDueStatusExclusive(dateString, completed, today) ==
    LET threeDaysFromNow == Normalise(YearOf(today), MonthOf(today), DayOf(today) + 3)
    IN  IF dateString = NULL \/ completed THEN ""
        ELSE IF dateString < today THEN "overdue"
        ELSE IF dateString < threeDaysFromNow THEN "due-soon"
        ELSE ""

\* if (!dateString || completed) return ''; ... setDate(getDate() + 3) ...
getDueStatus(dateString, completed, today) ==
    LET threeDaysFromNow == Normalise(YearOf(today), MonthOf(today), DayOf(today) + 3)
    IN  IF dateString = NULL \/ completed THEN ""
        ELSE IF dateString < today THEN "overdue"
        ELSE IF dateString <= threeDaysFromNow THEN "due-soon"
        ELSE ""

InitDate ==
    InitServer /\ InitClient /\ InitOthers /\ calc \in NextDueDateCalls \cup DueStatusCalls

CallNextDueDate ==
    /\ calc.fn = "calculateNextDueDate" /\ ~calc.done
    /\ calc' = [calc EXCEPT !.done = TRUE,
                            !.result = calculateNextDueDate(calc.currentDueDate,
                                                            calc.pattern, calc.now)]

\* the successor's due date is the basis of the next completion (index.js:198-199)
CallNextDueDateAgain ==
    /\ calc.fn = "calculateNextDueDate" /\ calc.done /\ calc.result \in Dates
    /\ calc' = [calc EXCEPT !.done = FALSE, !.currentDueDate = calc.result,
                            !.result = NULL]

CallDueStatus ==
    /\ calc.fn = "getDueStatus" /\ ~calc.done
    /\ calc' = [calc EXCEPT !.done = TRUE,
                            !.result = getDueStatus(calc.dateString, calc.completed,
                                                    calc.today)]

NextDate ==
    /\ UNCHANGED <<server, client, others>>
    /\ (CallNextDueDate \/ CallNextDueDateAgain \/ CallDueStatus)

SpecDate == InitDate /\ [][NextDate]_vars

-----------------------------------------------------------------------------
(* The view of the client: getFilteredTodos under the filter buttons and   *)
(* the sort select.  An array is its sequence of tasks; a call returns its *)
(* result together with this.todos as the call leaves it.                  *)

Filters == {"all", "active", "completed"}
Sorts == {"created", "due"}
ViewDueDates == {NULL, 20240131, 20240201}

\* the lists GET /api/tasks can answer, as far as the view reads them
TodoLists ==
    UNION {{l \in [1..n -> [id : 1..MaxTodos, completed : BOOLEAN, due_date : ViewDueDates]] :
                \A i \in 1..n : l[i].id = i} : n \in 0..MaxTodos}

\* faulty variant: the test of the active filter turned round
filterTodosInverted(list, filter) ==
    LET active(t) == t.completed
        completed(t) == t.completed
    IN  CASE filter = "active" -> SelectSeq(list, active)
          [] filter = "completed" -> SelectSeq(list, completed)
          [] OTHER -> list

\* switch (this.currentFilter): Array.filter keeps the order of the array
filterTodos(list, filter) ==
    LET active(t) == ~t.completed
        completed(t) == t.completed
    IN  CASE filter = "active" -> SelectSeq(list, active)
          [] filter = "completed" -> SelectSeq(list, completed)
          [] OTHER -> list

\* faulty variant: only the first task is tested for a missing due date
compareDueFirstOnly(a, b) ==
    IF a.due_date = NULL THEN 1
    ELSE a.due_date - b.due_date

\* the comparator handed to sort: tasks without due dates go to the end
compareDue(a, b) ==
    IF a.due_date = NULL /\ b.due_date = NULL THEN 0
    ELSE IF a.due_date = NULL THEN 1
    ELSE IF b.due_date = NULL THEN -1
    ELSE a.due_date - b.due_date

\* Array.prototype.sort is stable: x goes behind every task not after it
RECURSIVE InsertByDue(_, _)
InsertByDue(sorted, x) ==
    IF sorted = <<>> THEN <<x>>
    ELSE LET n == Len(sorted)
         IN  IF compareDue(sorted[n], x) <= 0 THEN Append(sorted, x)
             ELSE Append(InsertByDue(SubSeq(sorted, 1, n - 1), x), sorted[n])

RECURSIVE sortByDue(_)
sortByDue(list) ==
    IF list = <<>> THEN <<>>
    ELSE LET n == Len(list)
         IN  InsertByDue(sortByDue(SubSeq(list, 1, n - 1)), list[n])

\* faulty variant: the default case hands out this.todos itself, sorted in place
getFilteredTodosShared(list, filter, sort) ==
    LET filtered == filterTodos(list, filter)
        shared == filter \notin {"active", "completed"}
        result == IF sort = "due" THEN sortByDue(filtered) ELSE filtered
    IN  [result |-> result, todos |-> IF shared THEN result ELSE list]

\* filter and [...this.todos] make a new array, which sort orders in place
getFilteredTodos(list, filter, sort) ==
    LET filtered == filterTodos(list, filter)
        shared == FALSE
        result == IF sort = "due" THEN sortByDue(filtered) ELSE filtered
    IN  [result |-> result, todos |-> IF shared THEN result ELSE list]

\* the state loadTasks leaves: the list set, nothing shown, since its render()
\* returned at once with isLoading still true
InitView ==
    /\ InitServer
    /\ todos \in TodoLists
    /\ currentFilter = "all"
    /\ currentSort = "created"
    /\ rendered = <<>>
    /\ calc = NoCall
    /\ InitOthers

\* render() with isLoading false
Render(filter, sort) ==
    LET call == getFilteredTodos(todos, filter, sort)
    IN  /\ todos' = call.todos
        /\ rendered' = call.result
        /\ calc' = [fn |-> "getFilteredTodos", todos |-> todos, currentFilter |-> filter,
                    currentSort |-> sort, result |-> call.result]

setFilter(filter) ==
    /\ currentFilter' = filter
    /\ UNCHANGED currentSort
    /\ Render(filter, currentSort)

\* the change listener of the sort select
SortChange(sort) ==
    /\ currentSort' = sort
    /\ UNCHANGED currentFilter
    /\ Render(currentFilter, sort)

NextView ==
    /\ UNCHANGED <<server, others>>
    /\ \/ \E filter \in Filters : setFilter(filter)
       \/ \E sort \in Sorts : SortChange(sort)

SpecView == InitView /\ [][NextView]_vars

-----------------------------------------------------------------------------
(* PUT /api/tasks/:id step by step: each await of the handler is a step of *)
(* its own, so that the store calls of several requests interleave and a   *)
(* handler can fail or stop between its calls.                             *)

Running(h) == handlers[h].pc \in {"read", "update", "insert"}
StepPuts == {Body(Absent, Some(TRUE), Absent, Absent, Absent)}
StepUsers == {"u1"}

\* the request passes the checks of lines 129-167 and reaches the store calls
PutReceive(h, u, id, b) ==
    LET updates == BuildUpdates(b)
    IN  /\ handlers[h] = Idle
        /\ \A g \in 1..(h - 1) : handlers[g] # Idle
        /\ ~(Has(b.text) /\ (PutTextEmpty(b.text) \/ TextTooLong(b.text)))
        /\ ~PutPatternInvalid(b)
        /\ ~NoUpdates(updates)
        /\ handlers' = [handlers EXCEPT ![h] =
               [pc |-> IF updates.completed = Some(TRUE) THEN "read" ELSE "update",
                user |-> u, id |-> id, updates |-> updates, currentTask |-> {},
                during |-> {g \in Handlers : Running(g)},
                fresh |-> \E r \in SelectOwn(tasks, id, u) :
                             ~r.completed /\ r.is_recurring /\ Truthy(r.recurrence_pattern),
                wrote |-> FALSE, inserted |-> FALSE, outcome |-> "", status |-> 0]]
        /\ UNCHANGED <<tasks, nextId>>

\* the select of the current task, lines 171-178
PutRead(h) ==
    LET r == handlers[h]
    IN  /\ r.pc = "read"
        /\ handlers' = [handlers EXCEPT ![h].pc = "update",
                            ![h].currentTask = CurrentTask(tasks, r.user, r.id, r.updates)]
        /\ UNCHANGED <<tasks, nextId>>

\* the update, lines 181-193, and the test of line 196
PutUpdate(h) ==
    LET r == handlers[h]
        matched == SelectOwn(tasks, r.id, r.user)
    IN  /\ r.pc = "update"
        /\ UNCHANGED nextId
        /\ IF matched = {}
           THEN /\ handlers' = [handlers EXCEPT ![h].pc = "done", ![h].status = 500,
                                                ![h].outcome = "failed"]
                /\ UNCHANGED tasks
           ELSE /\ tasks' = (tasks \ matched) \cup {ApplyUpdates(t, r.updates) : t \in matched}
                /\ IF SpawnsNext(r.updates, r.currentTask)
                   THEN handlers' = [handlers EXCEPT ![h].pc = "insert", ![h].wrote = TRUE]
                   ELSE handlers' = [handlers EXCEPT ![h].pc = "done", ![h].wrote = TRUE,
                                                     ![h].status = 200, ![h].outcome = "ok"]

\* the insert of the next instance, lines 197-209, and the answer
PutInsert(h, now) ==
    LET r == handlers[h]
    IN  /\ r.pc = "insert"
        /\ nextId <= MaxTasks
        /\ tasks' = tasks \cup {NextInstance(nextId, r.user, r.id, c, now) : c \in r.currentTask}
        /\ nextId' = nextId + 1
        /\ handlers' = [handlers EXCEPT ![h].pc = "done", ![h].inserted = TRUE,
                                        ![h].status = 200, ![h].outcome = "ok"]

\* faulty variant: a failed insert takes the update back
PutInsertFailsRollingBack(h) ==
    LET r == handlers[h]
    IN  /\ r.pc = "insert"
        /\ tasks' = {IF t.id = r.id THEN [t EXCEPT !.completed = FALSE] ELSE t : t \in tasks}
        /\ UNCHANGED nextId
        /\ \E status \in {200, 500} :
               handlers' = [handlers EXCEPT ![h].pc = "done", ![h].status = status,
                                            ![h].outcome = "insertFailed"]

\* the insert fails: an error in its result is not looked at (200), a rejected
\* call is caught at line 213 (500); the handler undoes nothing
PutInsertFails(h) ==
    LET r == handlers[h]
    IN  /\ r.pc = "insert"
        /\ UNCHANGED <<tasks, nextId>>
        /\ \E status \in {200, 500} :
               handlers' = [handlers EXCEPT ![h].pc = "done", ![h].status = status,
                                            ![h].outcome = "insertFailed"]

\* the process ends while the handler waits for a store call
PutStops(h) ==
    /\ Running(h)
    /\ handlers' = [handlers EXCEPT ![h].outcome = "stopped at " \o handlers[h].pc,
                                    ![h].pc = "stopped"]
    /\ UNCHANGED <<tasks, nextId>>

NextSteps ==
    /\ UNCHANGED <<nreq, repeated, client, calc, ui, auth>>
    /\ \/ \E u \in StepUsers, b \in SeriesPosts : PostTask(u, b) /\ UNCHANGED handlers
       \/ /\ UNCHANGED <<prev, last>>
          /\ \E h \in Handlers :
                \/ \E u \in StepUsers, id \in TaskIds, b \in StepPuts : PutReceive(h, u, id, b)
                \/ PutRead(h)
                \/ PutUpdate(h)
                \/ \E now \in Clock : PutInsert(h, now)
                \/ PutInsertFails(h)
                \/ PutStops(h)

SpecSteps == Init /\ [][NextSteps]_vars

-----------------------------------------------------------------------------
(* Sign-in and sign-out in one page: ClarityApp.handleAuthChange, and the  *)
(* click listeners every TodoApp puts on the elements of the page.         *)

Tokens == {"t1", "t2", "t3"}

\* new TodoApp(this.session): the session is kept, bindEvents adds the listeners
NewTodoApp(sess) == [n |-> Cardinality(bound) + 1, token |-> sess]

\* the callback of onAuthStateChange; a sign-out comes with no session
handleAuthChange(sess) ==
    /\ session' = sess
    /\ UNCHANGED issued
    /\ IF sess # NoSession
       \* showApp
       THEN IF todoApp = NULL
            THEN /\ Cardinality(bound) < MaxApps
                 /\ todoApp' = NewTodoApp(sess).n
                 /\ bound' = bound \cup {NewTodoApp(sess)}
            ELSE UNCHANGED <<todoApp, bound>>
       \* showAuth: the reference is dropped, the listeners stay
       ELSE /\ todoApp' = NULL
            /\ UNCHANGED bound

\* a click on Add with a text typed: every listener on the button runs addTask,
\* and createTask sends with the token of its own TodoApp
ClickAdd ==
    /\ session # NoSession
    /\ issued' = {[app |-> a.n, token |-> a.token, current |-> session] : a \in bound}
    /\ UNCHANGED <<session, todoApp, bound>>

NextAuth ==
    /\ UNCHANGED <<server, client, calc, handlers, ui>>
    /\ \/ \E sess \in Tokens \cup {NoSession} : handleAuthChange(sess)
       \/ ClickAdd

SpecAuth == Init /\ [][NextAuth]_vars

-----------------------------------------------------------------------------
(* The TodoApp of one signed-in user against the server.  A request of the *)
(* client is in inflight from its fetch until the client has handled the   *)
(* response: first sent, then answered.  The server handles a sent request *)
(* in one step; responses are handled by the client in any order.          *)

Me == "u1"
MaxInFlight == 2

Sent(kind, id, series, body, why) ==
    [kind |-> kind, id |-> id, series |-> series, body |-> body, why |-> why,
     stage |-> "sent", ok |-> FALSE, data |-> <<>>]

Answered(q, ok, data) == [q EXCEPT !.stage = "answered", !.ok = ok, !.data = data]

toastError(text) == [type |-> "error", text |-> text, failed |-> TRUE]
toastSuccess(text) == [type |-> "success", text |-> text, failed |-> toast.failed]

\* render(): nothing while isLoading, else the filtered list is shown
Shown(loading, list) ==
    IF loading THEN rendered
    ELSE getFilteredTodos(list, currentFilter, currentSort).result

\* fetch(): the request leaves the client
Fetch(q) ==
    /\ q \notin inflight
    /\ Cardinality(inflight) < MaxInFlight
    /\ inflight' = inflight \cup {q}

\* the stores the page can be opened on: empty, or one task created before
StoredBefore(b) == {taskData(1, Me, b)}
InitStores == {{}} \cup {StoredBefore(b) : b \in SeriesPosts}

\* the page just opened: the constructor has run init(), so loadTasks has set
\* isLoading and its GET is on the way
InitPage ==
    /\ tasks \in InitStores
    /\ nextId = Cardinality(tasks) + 1
    /\ prev = {}
    /\ last = Answer(Request("none", Me, NULL, FALSE, NoBody), 0, "", <<>>)
    /\ nreq = 0
    /\ repeated = FALSE
    /\ InitClient
    /\ calc = NoCall
    /\ InitHandlers
    /\ InitAuth
    /\ isLoading = TRUE
    /\ inflight = {Sent("load", NULL, FALSE, NoBody, "init")}
    /\ timers = {}
    /\ modal = Closed
    /\ toast = NoToast

\* addTask and createTask up to the fetch; the inputs hold a text
AddInput(t, r) ==
    Body(Some(t), Absent, Some(NULL), Some(r), Some(IF r THEN "daily" ELSE NoPattern))
AddInputs ==
    {AddInput(Str(0, 1, 0), FALSE), AddInput(Str(0, 1, 0), TRUE),
     AddInput(Str(0, MaxTextLength + 1, 0), FALSE)}

addTask(b) ==
    /\ Length(Trim(Val(b.text))) > 0
    /\ Fetch(Sent("create", NULL, FALSE, [b EXCEPT !.text = Some(Trim(Val(b.text)))], "add"))
    /\ UNCHANGED <<tasks, nextId, prev, last, todos, rendered, isLoading, timers, modal, toast>>

\* toggleTask and updateTask up to the fetch
toggleTask(id) ==
    /\ \E i \in DOMAIN todos :
          /\ todos[i].id = id
          /\ \A j \in 1..(i - 1) : todos[j].id # id
          /\ Fetch(Sent("update", id, FALSE,
                        Body(Absent, Some(~todos[i].completed), Absent, Absent, Absent),
                        "toggle"))
    /\ UNCHANGED <<tasks, nextId, prev, last, todos, rendered, isLoading, timers, modal, toast>>

\* deleteTask up to the dialog: todo?.is_recurring chooses its wording
deleteTask(id) ==
    /\ ~modal.open
    /\ \E i \in DOMAIN rendered : rendered[i].id = id
    /\ modal' = [open |-> TRUE, kind |-> "delete", id |-> id,
                 recurring |-> \E i \in DOMAIN todos : todos[i].id = id /\ todos[i].is_recurring]
    /\ UNCHANGED <<tasks, nextId, prev, last, todos, rendered, isLoading, inflight, timers, toast>>

\* clearCompleted up to the dialog
clearCompleted ==
    /\ ~modal.open
    /\ \E i \in DOMAIN todos : todos[i].completed
    /\ modal' = [open |-> TRUE, kind |-> "clear", id |-> NULL, recurring |-> FALSE]
    /\ UNCHANGED <<tasks, nextId, prev, last, todos, rendered, isLoading, inflight, timers, toast>>

\* ConfirmModal.close(result): true from the OK button, false from Cancel and
\* from the backdrop; then the rest of deleteTask or clearCompleted
ModalClose(result) ==
    LET taskEl == \E i \in DOMAIN rendered : rendered[i].id = modal.id
        timer(series) == [kind |-> modal.kind, id |-> modal.id, series |-> series,
                          why |-> IF result THEN "confirmed" ELSE "dismissed"]
    IN  /\ modal.open
        /\ modal' = Closed
        /\ timers' =
              IF modal.kind = "clear"
              THEN (IF result THEN timers \cup {timer(FALSE)} ELSE timers)
              ELSE IF modal.recurring
              \* deleteAll === null is the only result taken as a cancel
              THEN (IF taskEl THEN timers \cup {timer(result)} ELSE timers)
              ELSE (IF result /\ taskEl THEN timers \cup {timer(FALSE)} ELSE timers)
        /\ UNCHANGED <<tasks, nextId, prev, last, todos, rendered, isLoading, inflight, toast>>

\* deleteTaskFromServer and clearCompletedFromServer up to the fetch
deleteTaskFromServer(id, series, why) == Fetch(Sent("delete", id, series, NoBody, why))
clearCompletedFromServer(why) == Fetch(Sent("clear", NULL, FALSE, NoBody, why))

\* the setTimeout callback of deleteTask or clearCompleted
TimerFires(t) ==
    /\ t \in timers
    /\ timers' = timers \ {t}
    /\ IF t.kind = "delete" THEN deleteTaskFromServer(t.id, t.series, t.why)
       ELSE clearCompletedFromServer(t.why)
    /\ UNCHANGED <<tasks, nextId, prev, last, todos, rendered, isLoading, modal, toast>>

\* deleteTask with the dialog answered by OK and the timer run; Delete All is
\* offered for a recurring task only
DeleteConfirmed(id, series) ==
    /\ \E i \in DOMAIN rendered : rendered[i].id = id
    /\ series => \E i \in DOMAIN todos : todos[i].id = id /\ todos[i].is_recurring
    /\ deleteTaskFromServer(id, series, "confirmed")
    /\ UNCHANGED <<tasks, nextId, prev, last, todos, rendered, isLoading, timers, modal, toast>>

\* clearCompleted with the dialog answered by OK and the timer run
ClearConfirmed ==
    /\ \E i \in DOMAIN todos : todos[i].completed
    /\ clearCompletedFromServer("confirmed")
    /\ UNCHANGED <<tasks, nextId, prev, last, todos, rendered, isLoading, timers, modal, toast>>

\* the server handles the request and answers
ServerHandles(q) ==
    /\ q \in inflight /\ q.stage = "sent"
    /\ CASE q.kind = "load" -> GetTasks(Me)
         [] q.kind = "create" -> PostTask(Me, q.body)
         [] q.kind = "update" -> \E now \in Clock : PutTask(Me, q.id, q.body, now)
         [] q.kind = "delete" -> DeleteTask(Me, q.id, q.series)
         [] q.kind = "clear" -> ClearCompleted(Me)
    /\ inflight' = (inflight \ {q})
                        \cup {Answered(q, last'.status \in 200..299, last'.data)}
    /\ UNCHANGED <<todos, rendered, isLoading, timers, modal, toast>>

\* the request does not reach a handler: fetch rejects, or the answer is an error
RequestFails(q) ==
    /\ q \in inflight /\ q.stage = "sent"
    /\ inflight' = (inflight \ {q}) \cup {Answered(q, FALSE, <<>>)}
    /\ UNCHANGED <<tasks, nextId, prev, last, todos, rendered, isLoading, timers, modal, toast>>

\* this.todos[index] = updatedTask, index the first task with the id
Replaced(list, id, task) ==
    [i \in DOMAIN list |->
        IF list[i].id = id /\ (\A j \in 1..(i - 1) : list[j].id # id) THEN task ELSE list[i]]

Without(list, id) == LET keep(t) == t.id # id IN SelectSeq(list, keep)
NotCompleted(list) == LET keep(t) == ~t.completed IN SelectSeq(list, keep)

\* the rest of loadTasks once its response is there, and of its caller
loadTasksDone(q) ==
    LET list == IF q.ok THEN q.data ELSE <<>>
        now == IF q.ok THEN toast ELSE toastError("Failed to load tasks")
    IN  /\ todos' = list
        /\ rendered' = Shown(isLoading, list)
        /\ isLoading' = FALSE
        /\ inflight' = inflight \ {q}
        /\ toast' = IF q.why = "init" THEN now
                    ELSE [type |-> "success", text |-> q.why, failed |-> now.failed]

\* setLoading(true) and the fetch of a loadTasks called when q was handled
Reload(q, why) ==
    /\ Sent("load", NULL, FALSE, NoBody, why) \notin inflight
    /\ inflight' = (inflight \ {q}) \cup {Sent("load", NULL, FALSE, NoBody, why)}
    /\ isLoading' = TRUE
    /\ UNCHANGED <<rendered, toast>>

\* a response that is not ok: the catch block
Failed(q, text) ==
    /\ toast' = toastError(text)
    /\ inflight' = inflight \ {q}
    /\ UNCHANGED <<todos, rendered, isLoading>>

\* the list changed and render() called, then a success toast
Rendered(q, list, text) ==
    /\ todos' = list
    /\ rendered' = Shown(isLoading, list)
    /\ toast' = IF text = "" THEN toast ELSE toastSuccess(text)
    /\ inflight' = inflight \ {q}
    /\ UNCHANGED isLoading

createTaskDone(q) ==
    IF q.ok THEN Rendered(q, <<q.data[1]>> \o todos, "Task created")
    ELSE Failed(q, "Failed to create task")

updateTaskDone(q) ==
    IF q.ok
    THEN LET list == Replaced(todos, q.id, q.data[1])
         IN  IF Val(q.body.completed) /\ q.data[1].is_recurring
             THEN todos' = list /\ Reload(q, "Task completed - next occurrence created")
             ELSE Rendered(q, list, "")
    ELSE Failed(q, "Failed to update task")

\* faulty variant: the task is dropped from the list whatever the answer
deleteTaskFromServerDoneAnyway(q) ==
    IF q.ok /\ q.series THEN UNCHANGED todos /\ Reload(q, "Recurring series deleted")
    ELSE IF q.ok THEN Rendered(q, Without(todos, q.id), "Task deleted")
    ELSE /\ todos' = Without(todos, q.id)
         /\ toast' = toastError("Failed to delete task")
         /\ inflight' = inflight \ {q}
         /\ UNCHANGED <<rendered, isLoading>>

deleteTaskFromServerDone(q) ==
    IF q.ok /\ q.series THEN UNCHANGED todos /\ Reload(q, "Recurring series deleted")
    ELSE IF q.ok THEN Rendered(q, Without(todos, q.id), "Task deleted")
    ELSE Failed(q, "Failed to delete task")

clearCompletedFromServerDone(q) ==
    IF q.ok THEN Rendered(q, NotCompleted(todos), "Cleared completed tasks")
    ELSE Failed(q, "Failed to clear completed tasks")

\* the client takes a response, whichever has arrived
Receive(q) ==
    /\ q \in inflight /\ q.stage = "answered"
    /\ CASE q.kind = "load" -> loadTasksDone(q)
         [] q.kind = "create" -> createTaskDone(q)
         [] q.kind = "update" -> updateTaskDone(q)
         [] q.kind = "delete" -> deleteTaskFromServerDone(q)
         [] q.kind = "clear" -> clearCompletedFromServerDone(q)
    /\ UNCHANGED <<tasks, nextId, prev, last, timers, modal>>

\* what the user does, each a new request
UserSends ==
    \/ \E b \in AddInputs : addTask(b)
    \/ \E id \in TaskIds : toggleTask(id)
    \/ \E id \in TaskIds, series \in BOOLEAN : DeleteConfirmed(id, series)
    \/ ClearConfirmed

NextPage ==
    /\ UNCHANGED <<repeated, currentFilter, currentSort, calc, handlers, auth>>
    /\ \/ nreq < MaxRequests /\ nreq' = nreq + 1 /\ UserSends
       \/ /\ UNCHANGED nreq
          /\ \/ \E q \in inflight : ServerHandles(q)
             \/ \E q \in inflight : RequestFails(q)
             \/ \E q \in inflight : Receive(q)

SpecPage == InitPage /\ [][NextPage]_vars

\* SpecDialog: the page with its tasks loaded and shown; the user deletes and
\* clears through the confirm dialog.  The requests stay on the way.
DialogRow(i, recurring, completed) ==
    [taskData(i, Me, AddInput(Str(0, 1, 0), recurring)) EXCEPT !.completed = completed]

DialogLists ==
    UNION {{l \in [1..n -> {DialogRow(i, r, c) : i \in 1..MaxTodos, r \in BOOLEAN, c \in BOOLEAN}] :
                \A i \in 1..n : l[i].id = i} : n \in 0..MaxTodos}

InitDialog ==
    /\ todos \in DialogLists
    /\ rendered = todos
    /\ tasks = {todos[i] : i \in DOMAIN todos}
    /\ nextId = Len(todos) + 1
    /\ prev = {}
    /\ last = Answer(Request("none", Me, NULL, FALSE, NoBody), 0, "", <<>>)
    /\ nreq = 0
    /\ repeated = FALSE
    /\ currentFilter = "all"
    /\ currentSort = "created"
    /\ calc = NoCall
    /\ InitHandlers
    /\ InitUi
    /\ InitAuth

NextDialog ==
    /\ UNCHANGED <<nreq, repeated, currentFilter, currentSort, calc, handlers, auth>>
    /\ \/ \E id \in 1..MaxTodos : deleteTask(id)
       \/ clearCompleted
       \/ \E result \in BOOLEAN : ModalClose(result)
       \/ \E t \in timers : TimerFires(t)

SpecDialog == InitDialog /\ [][NextDialog]_vars

-----------------------------------------------------------------------------
(* Routing.  A path is its sequence of segments; the routes of a server    *)
(* are tried in the order of their registration and the first one whose    *)
(* method and path match handles the request.                              *)

Route(method, path) == [method |-> method, path |-> path]

\* server/src/index.js, in the order of the app.get/post/put/delete calls
RoutesIndex ==
    <<Route("GET", <<"health">>),
      Route("GET", <<"api", "tasks">>),
      Route("POST", <<"api", "tasks">>),
      Route("PUT", <<"api", "tasks", ":id">>),
      Route("DELETE", <<"api", "tasks", ":id">>),
      Route("DELETE", <<"api", "tasks", "completed", "all">>),
      Route("GET", <<"api", "preferences">>),
      Route("PUT", <<"api", "preferences">>),
      Route("GET", <<"api", "user">>)>>

\* the server of unnamed/part_000
RoutesPart000 ==
    <<Route("GET", <<"health">>),
      Route("GET", <<"api", "tasks">>),
      Route("POST", <<"api", "tasks">>),
      Route("PUT", <<"api", "tasks", ":id">>),
      Route("DELETE", <<"api", "tasks", "completed", "all">>),
      Route("DELETE", <<"api", "tasks", ":id">>),
      Route("GET", <<"api", "user">>)>>

Servers == {"index.js", "part_000"}
RoutesOf(srv) == IF srv = "index.js" THEN RoutesIndex ELSE RoutesPart000

NotFound == Route("none", <<>>)

\* faulty variant: a route matches every path it is a prefix of
MatchesPrefix(route, method, path) ==
    /\ route.method = method
    /\ Len(route.path) <= Len(path)
    /\ \A k \in DOMAIN route.path : route.path[k] \in {":id", path[k]}

\* a named parameter matches one segment, any other segment only itself
Matches(route, method, path) ==
    /\ route.method = method
    /\ Len(route.path) = Len(path)
    /\ \A k \in DOMAIN route.path : route.path[k] \in {":id", path[k]}

\* the first matching route; no route: the default 404 of the framework
Dispatch(routes, method, path) ==
    LET hits == {i \in DOMAIN routes : Matches(routes[i], method, path)}
    IN  IF hits = {} THEN NotFound
        ELSE routes[CHOOSE i \in hits : \A j \in hits : i <= j]

Methods == {"GET", "POST", "PUT", "DELETE"}
Segments == {"api", "tasks", "completed", "all", "1"}
MaxSegments == 4
Paths == UNION {[1..n -> Segments] : n \in 1..MaxSegments}

DispatchCalls ==
    {[fn |-> "dispatch", srv |-> srv, method |-> m, path |-> p, done |-> FALSE,
      result |-> NotFound] : srv \in Servers, m \in Methods, p \in Paths}

InitRoute == InitServer /\ InitClient /\ InitOthers /\ calc \in DispatchCalls

CallDispatch ==
    /\ calc.fn = "dispatch" /\ ~calc.done
    /\ calc' = [calc EXCEPT !.done = TRUE,
                            !.result = Dispatch(RoutesOf(calc.srv), calc.method, calc.path)]

NextRoute == UNCHANGED <<server, client, others>> /\ CallDispatch

SpecRoute == InitRoute /\ [][NextRoute]_vars

-----------------------------------------------------------------------------
(* Properties.  prev and last make each request's effect a state predicate. *)

\* the rows the last request inserted
Inserted == {r \in tasks : r.id \notin Ids(prev)}

\* the row the last request addressed, as stored before it, if the caller owns it
Target == {r \in prev : r.id = last.id /\ r.user_id = last.user}

IsPut == last.op = "PUT"
IsDelete == last.op = "DELETE"
SendsCompleted == last.body.completed = Some(TRUE)

C2_SuccessorIffFirstCompletion ==
    IsPut =>
        /\ (Inserted # {}) <=>
               (/\ last.status = 200 /\ SendsCompleted
                /\ \E t \in Target :
                       ~t.completed /\ t.is_recurring /\ t.recurrence_pattern # NoPattern)
        /\ (SendsCompleted /\ \E t \in Target : t.completed) => Inserted = {}

\* C3: every stored task with is_recurring=false has recurrence_pattern=null.
C3_NonRecurringHasNoPattern ==
    \A r \in tasks : ~r.is_recurring => r.recurrence_pattern = NoPattern

\* C4: every stored task with is_recurring=true has one of the four patterns.
C4_RecurringHasValidPattern ==
    \A r \in tasks : r.is_recurring => r.recurrence_pattern \in validPatterns

\* C10: a create or update carrying a non-null recurrence_pattern outside the
\* four patterns is rejected with a validation error and the store is unchanged.
C10_UnknownPatternRejected ==
    (/\ last.op \in {"POST", "PUT"}
     /\ Has(last.body.recurrence_pattern)
     /\ Val(last.body.recurrence_pattern) # NoPattern
     /\ Val(last.body.recurrence_pattern) \notin validPatterns)
    => (last.status = 400 /\ tasks = prev)

\* C9: POST and PUT accept a text exactly when its trimmed length is 1..200,
\* and reject it with a validation error, before any write, otherwise.
TextErrors ==
    {"Task text is required", "Task text cannot be empty",
     "Task text must be 200 characters or less"}

C9_TextAcceptedIffTrimmedLengthInRange ==
    (last.op \in {"POST", "PUT"} /\ Has(last.body.text)) =>
        LET n == Length(Trim(Val(last.body.text)))
            rejected == last.status = 400 /\ last.error \in TextErrors
        IN  /\ rejected <=> ~(1 <= n /\ n <= MaxTextLength)
            /\ rejected => tasks = prev

\* C5: a series delete on the caller's task removes exactly the root (the
\* target's parent, else the target) and the caller's tasks whose
\* parent_task_id is the root; every other task stays stored.
C5_SeriesDeleteRemovesRootAndChildren ==
    (IsDelete /\ last.deleteSeries) =>
        \A t \in Target :
            LET root == IF t.parent_task_id # NULL THEN t.parent_task_id ELSE t.id
                gone == {root} \cup
                        {r.id : r \in {x \in prev : x.parent_task_id = root
                                                     /\ x.user_id = last.user}}
            IN  /\ gone \subseteq Ids(prev)
                /\ Ids(tasks) = Ids(prev) \ gone

\* the series delete went through a child: its parent went with it, while its
\* own child stayed
C5_Witness ==
    /\ IsDelete /\ last.deleteSeries
    /\ \E t \in Target :
        /\ t.parent_task_id # NULL
        /\ t.parent_task_id \notin Ids(tasks)
        /\ \E r \in prev : r.parent_task_id = t.id /\ r.id \in Ids(tasks)

C7_OwnerIsolation ==
    /\ \A r \in prev : r.user_id # last.user => r \in tasks
    /\ \A i \in 1..Len(last.data) : last.data[i].user_id = last.user
    /\ \A r \in prev, x \in tasks : r.id = x.id => r.user_id = x.user_id
    /\ \A r \in Inserted : r.user_id = last.user

\* a user addressed another user's task, by PUT or by DELETE
C7_Witness ==
    /\ last.op \in {"PUT", "DELETE"}
    /\ \E r \in prev : r.id = last.id /\ r.user_id # last.user /\ r.parent_task_id # NULL
    /\ \E r \in prev : r.user_id = last.user

\* C8 as stated: a DELETE for an id that is not a task of the caller answers 204
\* and changes no row.
C8_DeleteOfForeignIdIs204 ==
    (IsDelete /\ Target = {}) => (last.status = 204 /\ tasks = prev)

\* C8 amended: such a DELETE changes no row; it answers 204, except that an id
\* that is no UUID, without deleteSeries, answers 500.
C8_DeleteOfForeignIdChangesNothing ==
    (IsDelete /\ Target = {}) =>
        /\ tasks = prev
        /\ last.status = IF last.id = BadId /\ ~last.deleteSeries THEN 500 ELSE 204

\* the id is another user's task, which has a child, and the caller has tasks
C8_Witness ==
    /\ IsDelete /\ Target = {} /\ last.status = 204
    /\ \E r \in prev : r.id = last.id /\ \E x \in prev : x.parent_task_id = r.id
    /\ \E r \in prev : r.user_id = last.user /\ r.completed

\* C11: a PUT with completed=true on a task stored with is_recurring=false
\* inserts no task; the number of stored tasks is unchanged.
C11_CompletingNonRecurringInsertsNothing ==
    (IsPut /\ SendsCompleted /\ \E t \in Target : ~t.is_recurring)
    => (Inserted = {} /\ Cardinality(tasks) = Cardinality(prev))

\* the non-recurring task was completed, by a request that also made it recurring
C11_Witness ==
    /\ IsPut /\ SendsCompleted /\ last.status = 200
    /\ \E t \in Target : ~t.is_recurring
    /\ \E r \in tasks : r.id = last.id /\ r.completed /\ r.is_recurring
    /\ Inserted = {}

C13_SuccessorCopiesCompletedTask ==
    IsPut =>
        \A r \in Inserted : \A t \in tasks :
            t.id = last.id =>
                /\ ~r.completed
                /\ r.text = t.text
                /\ r.is_recurring = t.is_recurring
                /\ r.recurrence_pattern = t.recurrence_pattern
                /\ \E now \in Clock :
                       r.due_date =
                           calculateNextDueDate(t.due_date, t.recurrence_pattern, now)

\* C16: a PUT with valid fields for an id that is not a task of the caller is
\* answered 404 'Task not found', changes no row and inserts nothing.
C16_PutOfForeignIdIs404 ==
    (IsPut /\ Target = {}) =>
        (last.status = 404 /\ last.error = "Task not found" /\ tasks = prev)

\* C15: a series deletion or a clear-all-completed sent a second time in a row
\* succeeds and leaves the store as the first one left it.
IsSeriesDelete == IsDelete /\ last.deleteSeries
IsClearCompleted == last.op = "DELETE_COMPLETED"

C15_RepeatedDeletionIsNoOp ==
    (repeated /\ (IsSeriesDelete \/ IsClearCompleted))
    => (last.status = 204 /\ tasks = prev)

\* a series deletion that removed the addressed task was sent again, while the
\* same user still has a later recurring task
C15_Witness ==
    /\ repeated /\ IsSeriesDelete /\ last.status = 204
    /\ last.id \notin Ids(tasks) /\ last.id < nextId /\ last.id # BadId
    /\ \E r \in tasks : r.user_id = last.user /\ r.is_recurring /\ r.id > last.id
    /\ tasks = prev

\* clear-all-completed was sent again after it had removed a completed task
C15_WitnessClear ==
    /\ repeated /\ IsClearCompleted /\ last.status = 204
    /\ nextId > 1 /\ \A r \in tasks : r.user_id = last.user => ~r.completed
    /\ tasks = prev

\* days from 0000-12-31 to the date dt of the proleptic Gregorian calendar
RECURSIVE DaysBeforeMonth(_, _)
DaysBeforeMonth(y, m) ==
    IF m = 1 THEN 0 ELSE DaysBeforeMonth(y, m - 1) + DaysInMonth(y, m - 1)
DayNumber(dt) ==
    LET y == YearOf(dt) - 1
    IN  365 * y + (y \div 4) - (y \div 100) + (y \div 400)
        + DaysBeforeMonth(YearOf(dt), MonthOf(dt)) + DayOf(dt)

NextDueDateReturned ==
    calc.fn = "calculateNextDueDate" /\ calc.done /\ calc.currentDueDate # NULL

\* C14: for a due date d and a valid pattern, calculateNextDueDate returns d+1
\* day (daily), d+7 days (weekly), the same day of the next calendar month
\* (monthly), the same day and month of the next year (yearly): a date after d.
C14_NextDueDateOneUnitLater ==
    NextDueDateReturned =>
        LET d == calc.currentDueDate
            r == calc.result
            months(dt) == 12 * YearOf(dt) + MonthOf(dt)
        IN  /\ r > d
            /\ calc.pattern = "daily" => DayNumber(r) = DayNumber(d) + 1
            /\ calc.pattern = "weekly" => DayNumber(r) = DayNumber(d) + 7
            /\ calc.pattern = "monthly" =>
                   (months(r) = months(d) + 1 /\ DayOf(r) = DayOf(d))
            /\ calc.pattern = "yearly" =>
                   (YearOf(r) = YearOf(d) + 1 /\ MonthOf(r) = MonthOf(d)
                    /\ DayOf(r) = DayOf(d))

DueStatusReturned == calc.fn = "getDueStatus" /\ calc.done

\* C18: getDueStatus gives no status without a due date or for a completed
\* task; otherwise 'overdue' exactly when the due date is before today,
\* 'due-soon' exactly when it is today up to today+3 days, and none when later.
C18_DueStatusByDaysFromToday ==
    DueStatusReturned =>
        IF calc.dateString = NULL \/ calc.completed THEN calc.result = ""
        ELSE LET days == DayNumber(calc.dateString) - DayNumber(calc.today)
             IN  /\ calc.result = "overdue" <=> days < 0
                 /\ calc.result = "due-soon" <=> days \in 0..3
                 /\ calc.result = "" <=> days > 3

\* a task due on the third day after today, in the next year, is due soon
C18_Witness ==
    /\ DueStatusReturned /\ ~calc.completed
    /\ calc.today = 20231230 /\ calc.dateString = 20240102
    /\ calc.result = "due-soon"

ViewReturned == calc.fn = "getFilteredTodos"

\* the place of a task of the call's result in the list the call was given
PlaceOf(t) == CHOOSE k \in DOMAIN calc.todos : calc.todos[k] = t

\* the tasks the filter of the call lets through
Passing ==
    {calc.todos[k] : k \in
        {k \in DOMAIN calc.todos :
            \/ calc.currentFilter = "all"
            \/ calc.currentFilter = "active" /\ calc.todos[k].completed = FALSE
            \/ calc.currentFilter = "completed" /\ calc.todos[k].completed = TRUE}}

\* C17: with sort=due every dated task comes before every undated one, the
\* dated ones ascend by due_date, and tasks that compare equal keep the
\* relative order they had in the list.
C17_DueSortOrder ==
    (ViewReturned /\ calc.currentSort = "due") =>
        LET r == calc.result
        IN  /\ Len(r) = Cardinality(Passing)
            /\ {r[i] : i \in DOMAIN r} = Passing
            /\ \A i, j \in DOMAIN r :
                   i < j =>
                       /\ r[i].due_date = NULL => r[j].due_date = NULL
                       /\ (r[i].due_date # NULL /\ r[j].due_date # NULL)
                              => r[i].due_date <= r[j].due_date
                       /\ r[i].due_date = r[j].due_date => PlaceOf(r[i]) < PlaceOf(r[j])

\* an undated task listed first went behind two tasks due the same day, which
\* kept their order
C17_Witness ==
    /\ ViewReturned /\ calc.currentSort = "due" /\ calc.currentFilter = "all"
    /\ Len(calc.todos) = 3 /\ calc.todos[1].due_date = NULL
    /\ calc.todos[2].due_date = 20240201 /\ calc.todos[3].due_date = 20240201
    /\ calc.result = <<calc.todos[2], calc.todos[3], calc.todos[1]>>

\* C19: the view holds exactly the tasks with completed=false under
\* filter=active, exactly those with completed=true under filter=completed,
\* every task under filter=all; under sort=created in the order of the list.
C19_FilterKeepsMatchingInOrder ==
    ViewReturned =>
        LET r == calc.result
        IN  /\ Len(r) = Cardinality(Passing)
            /\ {r[i] : i \in DOMAIN r} = Passing
            /\ calc.currentSort = "created" =>
                   \A i, j \in DOMAIN r : i < j => PlaceOf(r[i]) < PlaceOf(r[j])

\* filter=active under sort=created dropped the completed task between two
\* active ones
C19_Witness ==
    /\ ViewReturned /\ calc.currentSort = "created" /\ calc.currentFilter = "active"
    /\ Len(calc.todos) = 3 /\ ~calc.todos[1].completed /\ calc.todos[2].completed
    /\ ~calc.todos[3].completed
    /\ calc.result = <<calc.todos[1], calc.todos[3]>>

C23_AtMostOneChild ==
    \A t \in tasks : Cardinality({r \in tasks : r.parent_task_id = t.id}) <= 1

\* C29: a series deletion addressed to a task of the caller removes that task,
\* root or child.
C29_SeriesDeleteRemovesTarget ==
    (IsSeriesDelete /\ Target # {}) => last.id \notin Ids(tasks)

\* the target was a child; a task of the other user is left
C29_Witness ==
    /\ IsSeriesDelete /\ last.status = 204
    /\ \E t \in Target : t.parent_task_id # NULL
    /\ last.id \notin Ids(tasks)
    /\ \E r \in tasks : r.user_id # last.user

ClearCompletedRoute == Route("DELETE", <<"api", "tasks", "completed", "all">>)
DeleteTaskRoute == Route("DELETE", <<"api", "tasks", ":id">>)
PlaceOfRoute(srv, route) == CHOOSE i \in DOMAIN RoutesOf(srv) : RoutesOf(srv)[i] = route

BulkDeleteDispatched ==
    /\ calc.fn = "dispatch" /\ calc.done
    /\ calc.method = "DELETE" /\ calc.path = ClearCompletedRoute.path

Children(id) == {c \in tasks : c.parent_task_id = id}
Ended(h) == handlers[h].pc \in {"done", "stopped"}

\* the update of handler h was written and its insert was not
LeftHalfDone(h) ==
    /\ Ended(h)
    /\ handlers[h].outcome \in {"insertFailed", "stopped at insert"}

\* C24: when the insert of the successor fails or the handler stops before it,
\* the task stays completed in the store and no successor is stored for that
\* request: the update is not taken back.
C24_FailedInsertLeavesTaskCompleted ==
    \A h \in Handlers :
        LeftHalfDone(h) =>
            /\ \E t \in tasks : t.id = handlers[h].id /\ t.user_id = handlers[h].user
                                /\ t.completed
            /\ ~handlers[h].inserted
            /\ Cardinality(Children(handlers[h].id)) =
                   Cardinality({g \in Handlers :
                                   /\ handlers[g] # Idle
                                   /\ handlers[g].id = handlers[h].id
                                   /\ handlers[g].inserted})

\* a recurring task is completed and has no successor, after a failed insert
\* answered 200
C24_Witness ==
    \E h \in Handlers :
        /\ LeftHalfDone(h) /\ handlers[h].outcome = "insertFailed"
        /\ handlers[h].status = 200
        /\ Children(handlers[h].id) = {}
        /\ \E t \in tasks : t.id = handlers[h].id /\ t.completed /\ t.is_recurring

\* handlers h and g were at work at the same time
Concurrent(h, g) == h \in handlers[g].during \/ g \in handlers[h].during

\* C25: two completions of the same uncompleted recurring task handled
\* concurrently insert exactly one successor.
C25_ConcurrentCompletionsInsertOne ==
    \A h, g \in Handlers :
        (/\ h # g /\ Ended(h) /\ Ended(g)
         /\ handlers[h].outcome = "ok" /\ handlers[g].outcome = "ok"
         /\ handlers[h].id = handlers[g].id /\ handlers[h].user = handlers[g].user
         /\ handlers[h].fresh /\ handlers[g].fresh
         /\ Concurrent(h, g))
        => Cardinality(Children(handlers[h].id)) = 1

\* C30: after any sequence of auth state changes at most one TodoApp has its
\* listeners on the page, and a click on Add sends one request, with the token
\* of the session current at the click.
C30_OneBoundAppCurrentToken ==
    /\ Cardinality(bound) <= 1
    /\ Cardinality(issued) <= 1
    /\ \A q \in issued : q.token = q.current

Mutations == {"create", "update", "delete", "clear"}

\* the client handles the response of q in this step
Handled(q) == q \in inflight /\ q.stage = "answered" /\ q \notin inflight'

\* C21: the client changes its list only when it handles a response that is ok
\* (or a reload); when the response of a create, update, delete or clear is not
\* ok the list stays, an error toast is shown and no request is sent.
C21_ListChangesOnlyOnSuccess ==
    [][/\ \A q \in inflight :
            (Handled(q) /\ q.kind \in Mutations /\ ~q.ok)
            => (todos' = todos /\ toast'.type = "error" /\ inflight' = inflight \ {q})
       /\ todos' # todos
            => \E q \in inflight : Handled(q) /\ (q.ok \/ q.kind = "load")]_vars

\* a toggle was refused: the list still holds the task as it was, the error is
\* shown and nothing is on the way
C21_Witness ==
    /\ toast.type = "error" /\ toast.text = "Failed to update task"
    /\ inflight = {}
    /\ todos # <<>>
    /\ \E i \in DOMAIN todos : \E t \in tasks : t.id = todos[i].id /\ t = todos[i]

\* C27: whenever the client is not loading, the list on the page is
\* getFilteredTodos() of the local list.
C27_ShownListIsFilteredTodos ==
    ~isLoading => rendered = getFilteredTodos(todos, currentFilter, currentSort).result

View(t) == [id |-> t.id, text |-> t.text, completed |-> t.completed]

\* C28: with no request on the way and none failed, the local list holds the
\* caller's stored tasks, each once, with the stored text and completed.
C28_LocalListMatchesStore ==
    (inflight = {} /\ ~toast.failed) =>
        /\ {View(todos[i]) : i \in DOMAIN todos} = 
              {View(t) : t \in {r \in tasks : r.user_id = Me}}
        /\ Len(todos) = Cardinality({r \in tasks : r.user_id = Me})

\* C26: no delete request is sent, and none is scheduled, after the dialog was
\* dismissed by Cancel or a click on the backdrop.
C26_DismissedDialogSendsNothing ==
    \A x \in timers \cup inflight : x.kind = "delete" => x.why # "dismissed"

====
